---- MODULE Spec2Model ----
(***************************************************************************)
(* Model of the VS Code extension of AhirTech1/vuln-detection: the         *)
(* 'vulnDetection.analyze' command, the launcher fallback of               *)
(* tryPythonCommand, the promise it settles, and the results panel.        *)
(*                                                                         *)
(* JavaScript strings are sequences of lexemes (TLA+ strings); the five    *)
(* characters escapeHtml rewrites are lexemes of their own.  One request   *)
(* is modelled at a time: the extension keeps no module-level state, every *)
(* request lives in the closures of its own analyzeCode call.              *)
(***************************************************************************)
EXTENDS Integers, Sequences, FiniteSets, TLC

VARIABLES
    build,      \* which copy of the extension source is loaded
    pc,         \* position of the command: "idle", "progress", "awaiting", "done"
    req,        \* the editor state the command read, and code/language it derived
    procs,      \* child processes spawned for the request, in spawn order
    promise,    \* the promise of analyzeCode
    calls,      \* every resolve/reject call made on it, in order
    ui,         \* what the user was shown for this invocation, in order
    rInput,     \* rendering harness: the parsed detector output handed over
    rOutput,    \* rendering harness: what getResultsHtml returned for it
    eInput,     \* rendering harness: a string handed to escapeHtml
    eOutput     \* rendering harness: what escapeHtml returned for it

vars == <<build, pc, req, procs, promise, calls, ui, rInput, rOutput, eInput, eOutput>>

(***************************** bounds **************************************)
MaxStdout == 3      \* 'data' chunks accumulated on a process's stdout
MaxStderr == 1      \* 'data' chunks accumulated on a process's stderr
MaxFindings == 3    \* length of results in the rendering harness
MaxText == 3        \* lexemes of a string handed to escapeHtml on its own

(************************* JavaScript values *******************************)
Undefined == <<"undefined">>
FunctionObject == "function Object() { [native code] }"

RECURSIVE Flatten(_)
Flatten(ss) == IF ss = <<>> THEN <<>> ELSE Head(ss) \o Flatten(Tail(ss))

\* String(n) of an integer, as its sign and decimal digits
Digits == <<"0", "1", "2", "3", "4", "5", "6", "7", "8", "9">>

RECURSIVE NumberText(_)
NumberText(n) ==
    IF n < 0 THEN <<"-">> \o NumberText(0 - n)
    ELSE IF n < 10 THEN <<Digits[n + 1]>>
    ELSE NumberText(n \div 10) \o <<Digits[(n % 10) + 1]>>

\* String.prototype.trim on a sequence of one-character lexemes
RECURSIVE TrimLeft(_)
TrimLeft(s) == IF s # <<>> /\ Head(s) = " " THEN TrimLeft(Tail(s)) ELSE s

RECURSIVE TrimRight(_)
TrimRight(s) ==
    IF s # <<>> /\ s[Len(s)] = " " THEN TrimRight(SubSeq(s, 1, Len(s) - 1)) ELSE s

trim(s) == TrimRight(TrimLeft(s))

Builds == {"extension.js", "part_001"}

(************************** the analyze command ****************************)
\* The value JavaScript gives for a missing property, as a language value
JsUndefined == "undefined"

\* editor.document.languageId: identifiers of supported languages, of
\* unsupported ones, and one that names a property every object inherits
LanguageIds == {"python", "typescript", "ruby", "constructor"}

\* editor.document.getText(selection)
Selections == {<<>>, <<" ">>, <<" ", "y", " ">>}

languageMap ==
    [python |-> "python", javascript |-> "javascript",
     javascriptreact |-> "javascript", typescript |-> "javascript",
     typescriptreact |-> "javascript"]

\* languageMap[languageId]: an own property, else what Object.prototype
\* holds under that name, else undefined
LanguageOf(languageId) ==
    IF languageId \in DOMAIN languageMap THEN languageMap[languageId]
    ELSE IF languageId = "constructor" THEN FunctionObject
    ELSE JsUndefined

NoRequest ==
    [hasEditor |-> FALSE, selectedText |-> <<>>, languageId |-> JsUndefined,
     language |-> JsUndefined]

Message(kind, text) == [kind |-> kind, body |-> text]

NoPythonMessage ==
    <<"Python is not installed or not in PATH. Please install Python 3.x.">>

(****************************** the promise ********************************)
Pending == [state |-> "pending", value |-> [message |-> <<>>]]

Error(message) == [message |-> message]

\* A Promise settles on the first resolve or reject; later calls do nothing.
Resolve(st, by, value) ==
    [st EXCEPT
        !.calls = Append(@, [by |-> by, fn |-> "resolve", arg |-> value]),
        !.promise = IF @.state = "pending"
                    THEN [state |-> "resolved", value |-> value] ELSE @]

Reject(st, by, err) ==
    [st EXCEPT
        !.calls = Append(@, [by |-> by, fn |-> "reject", arg |-> err]),
        !.promise = IF @.state = "pending"
                    THEN [state |-> "rejected", value |-> err] ELSE @]

(**************************** child processes ******************************)
pythonCommands == <<"python", "python3", "py">>

\* JSON.stringify({ code, language }): a property whose value is a function
\* or undefined is left out
JSONstringify(code, language) ==
    <<"{", "\"code\":">> \o code
    \o (IF language \in {FunctionObject, JsUndefined} THEN <<>>
        ELSE <<",", "\"language\":", language>>)
    \o <<"}">>

NewStdin == [written |-> <<>>, ended |-> FALSE, writeAfterEnd |-> FALSE]

StdinWrite(stdin, data) ==
    IF stdin.ended THEN [stdin EXCEPT !.writeAfterEnd = TRUE]
    ELSE [stdin EXCEPT !.written = Append(@, data)]

StdinEnd(stdin) == [stdin EXCEPT !.ended = TRUE]

spawn(cmd) ==
    [cmd |-> cmd, errored |-> FALSE, closed |-> FALSE, exitCode |-> 0,
     stdout |-> <<>>, stderr |-> <<>>, stdin |-> NewStdin]

\* The writes tryPythonCommand makes to a process it spawned
SendInputTwice(p, code, language) ==
    [p EXCEPT !.stdin =
        StdinEnd(StdinWrite(StdinWrite(@, JSONstringify(code, language)),
                            JSONstringify(code, language)))]

SendInput(p, code, language) ==
    [p EXCEPT !.stdin = StdinEnd(StdinWrite(@, JSONstringify(code, language)))]

tryPythonCommandNoExhaustion(st, index, code, language) ==
    IF index >= Len(pythonCommands)
    THEN st
    ELSE [st EXCEPT !.procs =
            Append(@, SendInput(spawn(pythonCommands[index + 1]), code, language))]

\* tryPythonCommand(commands, index, ...), index counted from 0, up to the
\* return of the call; the handlers it registers are the actions below
tryPythonCommand(st, index, code, language) ==
    IF index >= Len(pythonCommands)
    THEN Reject(st, 0, Error(NoPythonMessage))
    ELSE [st EXCEPT !.procs =
            Append(@, SendInput(spawn(pythonCommands[index + 1]), code, language))]

(*************************** detector output *******************************)
ErrorFinding ==
    [vulnerability |-> <<"Error">>, severity |-> <<"N/A">>, lines |-> <<>>,
     explanation |-> <<"Invalid JSON input">>, patch |-> <<"N/A">>]

CodeInjection ==
    [vulnerability |-> <<"Code Injection">>, severity |-> <<"Critical">>,
     lines |-> <<1>>,
     explanation |-> <<"eval() executes ", "<", "input", ">">>,
     patch |-> <<"ast.literal_eval(", "'", "x", "'", ")">>]

CrossSiteScripting ==
    [vulnerability |-> <<"Cross-Site Scripting">>, severity |-> <<"High">>,
     lines |-> <<2, 5>>,
     explanation |-> <<"innerHTML ", "&", " document.write">>,
     patch |-> <<"el.textContent = ", "\"", "x", "\"">>]

Findings == {ErrorFinding, CodeInjection, CrossSiteScripting}

\* The chunks a detector process may write to its stdout: the opening of a
\* response, one finding of its results, and its closing
HeadChunk == "{\"language\":\"python\",\"results\":["
ItemChunk == "{\"vulnerability\":\"Code Injection\",...}"
TailChunk == "]}"
StdoutChunks == {HeadChunk, ItemChunk, TailChunk}
StderrChunks == {"Traceback (most recent call last)"}

\* JSON.parse(stdout): the text parses when it is one complete response;
\* ok = FALSE stands for the SyntaxError it throws otherwise
JSONparse(text) ==
    IF /\ Len(text) >= 2
       /\ text[1] = HeadChunk
       /\ text[Len(text)] = TailChunk
       /\ \A i \in 2..(Len(text) - 1) : text[i] = ItemChunk
    THEN [ok |-> TRUE,
          value |-> [language |-> "python",
                     results |-> [i \in 1..(Len(text) - 2) |-> CodeInjection]]]
    ELSE [ok |-> FALSE, value |-> [language |-> "python", results |-> <<>>]]

(***************************** results panel ******************************)
\* obj.field, read as a string: String(undefined) for a missing property
Field(obj, name) == IF name \in DOMAIN obj THEN obj[name] ELSE Undefined

\* str.replace(/ch/g, repl); s is the value of str, evaluated once
Replace(str, ch, repl) ==
    CHOOSE out \in
        {Flatten([i \in 1..Len(s) |-> IF s[i] = ch THEN repl ELSE <<s[i]>>]) :
            s \in {str}} : TRUE

escapeHtmlAmpersandLast(str) ==
    Replace(Replace(Replace(Replace(Replace(str,
        "<", <<"&", "lt", ";">>),
        ">", <<"&", "gt", ";">>),
        "\"", <<"&", "quot", ";">>),
        "'", <<"&", "#039", ";">>),
        "&", <<"&", "amp", ";">>)

escapeHtml(str) ==
    Replace(Replace(Replace(Replace(Replace(str,
        "&", <<"&", "amp", ";">>),
        "<", <<"&", "lt", ";">>),
        ">", <<"&", "gt", ";">>),
        "\"", <<"&", "quot", ";">>),
        "'", <<"&", "#039", ";">>)

DefaultColor == "#6b7280"

severityColors ==
    [Critical |-> "#dc2626", High |-> "#ea580c", Medium |-> "#ca8a04",
     Low |-> "#16a34a", Safe |-> "#22c55e"]

\* severityColors[severity] || '#6b7280'; the 'N/A' entry is that colour
\* too.  The lookup finds an own property, else what Object.prototype holds
\* under that name (truthy, so it is the value taken), else undefined.
SeverityColor(severity) ==
    IF Len(severity) = 1 /\ severity[1] \in DOMAIN severityColors
    THEN severityColors[severity[1]]
    ELSE IF severity = <<"constructor">> THEN FunctionObject
    ELSE DefaultColor

\* lines.join(', ')
RECURSIVE join(_)
join(lines) ==
    IF lines = <<>> THEN <<>>
    ELSE IF Len(lines) = 1 THEN NumberText(lines[1])
    ELSE NumberText(lines[1]) \o <<", ">> \o join(Tail(lines))

LineText(vuln) ==
    LET lines == IF "lines" \in DOMAIN vuln THEN vuln.lines ELSE <<>>
    IN  IF Len(lines) = 1 THEN <<"Line ">> \o NumberText(lines[1])
        ELSE IF Len(lines) > 1 THEN <<"Lines ">> \o join(lines)
        ELSE <<>>

\* One pass of the forEach callback: the vuln-section appended to cardsHtml
Card(vuln, index, vulnCount) ==
    [number |-> IF vulnCount > 1
                THEN <<"Issue ">> \o NumberText(index + 1) \o <<" of ">>
                     \o NumberText(vulnCount)
                ELSE <<>>,
     color |-> SeverityColor(Field(vuln, "severity")),
     vulnerability |-> escapeHtml(Field(vuln, "vulnerability")),
     location |-> IF LineText(vuln) # <<>> THEN escapeHtml(LineText(vuln)) ELSE <<>>,
     severity |-> escapeHtml(Field(vuln, "severity")),
     explanation |-> escapeHtml(Field(vuln, "explanation")),
     patch |-> escapeHtml(Field(vuln, "patch"))]

CardsReversed(results) ==
    [i \in 1..Len(results) |->
        Card(results[Len(results) + 1 - i], i - 1, Len(results))]

\* results.forEach((vuln, index) => { cardsHtml += ... })
Cards(results) ==
    [i \in 1..Len(results) |-> Card(results[i], i - 1, Len(results))]

SafeMessage == <<"Code Appears Safe">>

\* result.results || []
ResultsOf(result) == IF "results" \in DOMAIN result THEN result.results ELSE <<>>

IsErrorAnywhere(results) ==
    \E i \in 1..Len(results) : Field(results[i], "vulnerability") = <<"Error">>

IsError(results) ==
    Len(results) > 0 /\ Field(results[1], "vulnerability") = <<"Error">>

HasVulnerabilities(results) ==
    Len(results) > 0 /\ Field(results[1], "vulnerability") # <<"Error">>

\* getResultsHtml of the copy with the results array
getResultsHtml(result) ==
    LET results == ResultsOf(result)
        vulnCount == Len(results)
        hasVulnerabilities == HasVulnerabilities(results)
        isError == IsError(results)
    IN  [statusIcon |-> IF isError THEN "cross"
                        ELSE IF hasVulnerabilities THEN "warning" ELSE "check",
         statusText |->
            IF isError THEN <<"Analysis Error">>
            ELSE IF hasVulnerabilities
                 THEN NumberText(vulnCount)
                      \o <<" ",
                           IF vulnCount = 1 THEN "vulnerability" ELSE "vulnerabilities",
                           " detected">>
                 ELSE <<"No vulnerabilities detected">>,
         headerColor |-> IF isError THEN "#6b7280"
                         ELSE IF hasVulnerabilities THEN "#ea580c" ELSE "#22c55e",
         cards |-> IF hasVulnerabilities \/ isError THEN Cards(results) ELSE <<>>,
         safeMessage |-> IF hasVulnerabilities \/ isError THEN <<>> ELSE SafeMessage]

\* getResultsHtml of extension.js, which reads the finding's fields from the
\* result itself
getResultsHtmlFlat(result) ==
    LET vulnerability == Field(result, "vulnerability")
        isVulnerable ==
            vulnerability # <<"None Detected">> /\ vulnerability # <<"Error">>
    IN  [statusIcon |-> IF isVulnerable THEN "warning"
                        ELSE IF vulnerability = <<"Error">> THEN "cross" ELSE "check",
         statusText |->
            IF isVulnerable THEN <<"Vulnerability Detected">>
            ELSE IF vulnerability = <<"Error">> THEN <<"Analysis Error">>
                 ELSE <<"Code Appears Safe">>,
         headerColor |-> "var(--vscode-descriptionForeground)",
         cards |-> <<[number |-> <<>>,
                      color |-> SeverityColor(Field(result, "severity")),
                      vulnerability |-> escapeHtml(vulnerability),
                      location |-> <<>>,
                      severity |-> escapeHtml(Field(result, "severity")),
                      explanation |-> escapeHtml(Field(result, "explanation")),
                      patch |-> escapeHtml(Field(result, "patch"))]>>,
         safeMessage |-> <<>>]

\* panel.webview.html = getResultsHtml(result), in the copy that is loaded
PanelHtml(b, result) ==
    IF b = "part_001" THEN getResultsHtml(result) ELSE getResultsHtmlFlat(result)

Transport == [procs |-> procs, promise |-> promise, calls |-> calls]

SetTransport(st) ==
    /\ procs' = st.procs
    /\ promise' = st.promise
    /\ calls' = st.calls

(******************************* initial state *****************************)
EmptyResponse == [language |-> "python", results |-> <<>>]

Init ==
    /\ build \in Builds
    /\ pc = "idle"
    /\ req = NoRequest
    /\ procs = <<>>
    /\ promise = Pending
    /\ calls = <<>>
    /\ ui = <<>>
    /\ rInput = EmptyResponse
    /\ rOutput = <<>>
    /\ eInput = <<>>
    /\ eOutput = <<>>

(********************************* actions *********************************)
\* The 'vulnDetection.analyze' command handler, up to its return
Command(hasEditor, selectedText, languageId) ==
    /\ pc \in {"idle", "returned", "done"}
    /\ procs' = <<>>
    /\ promise' = Pending
    /\ calls' = <<>>
    /\ IF ~hasEditor
       THEN /\ ui' = <<Message("error", <<"No active editor found.">>)>>
            /\ req' = NoRequest
            /\ pc' = "returned"
       ELSE IF selectedText = <<>> \/ trim(selectedText) = <<>>
       THEN /\ ui' = <<Message("error", <<"Please select some code to analyze.">>)>>
            /\ req' = [NoRequest EXCEPT !.hasEditor = TRUE,
                                         !.selectedText = selectedText]
            /\ pc' = "returned"
       ELSE IF LanguageOf(languageId) = JsUndefined
       THEN /\ ui' = <<Message("warning",
                        <<"Language \"", languageId,
                          "\" is not supported. Only Python and JavaScript are currently supported.">>)>>
            /\ req' = [hasEditor |-> TRUE, selectedText |-> selectedText,
                       languageId |-> languageId, language |-> JsUndefined]
            /\ pc' = "returned"
       ELSE /\ ui' = <<>>
            /\ req' = [hasEditor |-> TRUE, selectedText |-> selectedText,
                       languageId |-> languageId,
                       language |-> LanguageOf(languageId)]
            /\ pc' = "progress"
    /\ UNCHANGED <<build, rInput, rOutput, eInput, eOutput>>

\* The user runs the command, with or without an active editor
Invoke ==
    \/ Command(FALSE, <<>>, JsUndefined)
    \/ \E selectedText \in Selections, languageId \in LanguageIds :
            Command(TRUE, selectedText, languageId)

\* The withProgress task up to its await: analyzeCode builds the promise and
\* makes the first tryPythonCommand call
ProgressTask ==
    /\ pc = "progress"
    /\ SetTransport(tryPythonCommand(Transport, 0, req.selectedText, req.language))
    /\ pc' = "awaiting"
    /\ UNCHANGED <<build, req, ui, rInput, rOutput, eInput, eOutput>>

Alive(i) == i \in 1..Len(procs) /\ ~procs[i].closed

\* pythonProcess.stdout.on('data')
StdoutData ==
    \E i \in 1..Len(procs), data \in StdoutChunks :
        /\ Alive(i) /\ ~procs[i].errored
        /\ Len(procs[i].stdout) < MaxStdout
        /\ procs' = [procs EXCEPT ![i].stdout = Append(@, data)]
        /\ UNCHANGED <<build, pc, req, promise, calls, ui, rInput, rOutput, eInput, eOutput>>

\* pythonProcess.stderr.on('data')
StderrData ==
    \E i \in 1..Len(procs), data \in StderrChunks :
        /\ Alive(i) /\ ~procs[i].errored
        /\ Len(procs[i].stderr) < MaxStderr
        /\ procs' = [procs EXCEPT ![i].stderr = Append(@, data)]
        /\ UNCHANGED <<build, pc, req, promise, calls, ui, rInput, rOutput, eInput, eOutput>>

\* pythonProcess.on('error'): the process could not be started
ProcError ==
    \E i \in 1..Len(procs) :
        /\ Alive(i) /\ ~procs[i].errored
        /\ procs[i].stdout = <<>> /\ procs[i].stderr = <<>>
        /\ SetTransport(tryPythonCommand(
                [Transport EXCEPT !.procs[i].errored = TRUE],
                i, req.selectedText, req.language))
        /\ UNCHANGED <<build, pc, req, ui, rInput, rOutput, eInput, eOutput>>

\* The exit codes 'close' reports: of a process that ran, and the negative
\* errno of one that failed to start
RunExitCodes == {0, 1}
SpawnErrnos == {-2}

CloseHandlerIgnoresExitCode(st, i) ==
    LET p == st.procs[i]
    IN  IF JSONparse(p.stdout).ok
        THEN Resolve(st, i, JSONparse(p.stdout).value)
        ELSE Reject(st, i,
                Error(<<"Failed to parse detector output: ">> \o p.stdout))

\* The body of the 'close' listener of process i
CloseHandler(st, i) ==
    LET p == st.procs[i]
    IN  IF p.exitCode = 0
        THEN IF JSONparse(p.stdout).ok
             THEN Resolve(st, i, JSONparse(p.stdout).value)
             ELSE Reject(st, i,
                    Error(<<"Failed to parse detector output: ">> \o p.stdout))
        ELSE Reject(st, i,
                Error(<<"Detector exited with code ">> \o NumberText(p.exitCode)
                      \o <<": ">> \o p.stderr))

\* pythonProcess.on('close') of process i; Node also emits it, with the
\* errno as the code, after the 'error' of a process that failed to start
ProcCloseOf(i) ==
    \E exitCode \in (IF procs[i].errored THEN SpawnErrnos ELSE RunExitCodes) :
        /\ Alive(i)
        /\ SetTransport(CloseHandler(
                [Transport EXCEPT !.procs[i].closed = TRUE,
                                  !.procs[i].exitCode = exitCode], i))
        /\ UNCHANGED <<build, pc, req, ui, rInput, rOutput, eInput, eOutput>>

ProcClose == \E i \in 1..Len(procs) : ProcCloseOf(i)

\* showResultsPanel(result, context)
showResultsPanel(shown, result) ==
    Append(shown, Message("panel", PanelHtml(build, result)))

\* The rest of the withProgress task once the awaited promise has settled
Resume ==
    /\ pc = "awaiting"
    /\ promise.state # "pending"
    /\ ui' = IF promise.state = "resolved"
             THEN showResultsPanel(ui, promise.value)
             ELSE Append(ui, Message("error",
                    <<"Analysis failed: ">> \o promise.value.message))
    /\ pc' = "done"
    /\ UNCHANGED <<build, req, procs, promise, calls, rInput, rOutput, eInput, eOutput>>

Next ==
    \/ Invoke
    \/ ProgressTask
    \/ StdoutData
    \/ StderrData
    \/ ProcError
    \/ ProcClose
    \/ Resume

Spec == Init /\ [][Next]_vars

\* Every spawned process eventually emits 'error' or 'close', and the task
\* awaiting a settled promise is resumed
FirstEvent ==
    \/ ProcError
    \/ \E i \in 1..Len(procs) : ~procs[i].errored /\ ProcCloseOf(i)

FairSpec ==
    /\ Spec
    /\ WF_vars(ProgressTask)
    /\ WF_vars(FirstEvent)
    /\ WF_vars(Resume)

(*************************** rendering harness *****************************)
\* getResultsHtml applied to every response of the shape the detector
\* writes, with up to MaxFindings findings, and to one without results
SeqsUpTo(S, n) == UNION {[1..k -> S] : k \in 0..n}

RenderInputs ==
    {[language |-> "python", results |-> r] : r \in SeqsUpTo(Findings, MaxFindings)}
    \cup {[language |-> "python"]}

\* Lexemes of the strings escapeHtml is applied to on its own: the five
\* characters it rewrites, and the parts of the entities it writes
EscapeLexemes == {"&", "<", ">", "\"", "'", ";", "amp", "lt"}

EscapeInputs == SeqsUpTo(EscapeLexemes, MaxText)

RenderInit ==
    /\ build \in Builds
    /\ pc = "idle"
    /\ req = NoRequest
    /\ procs = <<>>
    /\ promise = Pending
    /\ calls = <<>>
    /\ ui = <<>>
    /\ rOutput = <<>>
    /\ eOutput = <<>>
    /\ \/ rInput \in RenderInputs /\ eInput = <<>>
       \/ rInput = EmptyResponse /\ eInput \in EscapeInputs

Render ==
    /\ rOutput = <<>>
    /\ rOutput' = showResultsPanel(rOutput, rInput)
    /\ UNCHANGED <<build, pc, req, procs, promise, calls, ui, rInput, eInput, eOutput>>

\* escapeHtml(str), for a string of any content
Escape ==
    /\ eOutput = <<>>
    /\ eOutput' = <<escapeHtml(eInput)>>
    /\ UNCHANGED <<build, pc, req, procs, promise, calls, ui, rInput, rOutput, eInput>>

RenderNext == Render \/ Escape

RenderSpec == RenderInit /\ [][RenderNext]_vars

(********************************* claims **********************************)
StartedOk(p) == ~p.errored /\ p.closed /\ p.exitCode = 0 /\ JSONparse(p.stdout).ok

ExitMessage(p) ==
    <<"Detector exited with code ">> \o NumberText(p.exitCode) \o <<": ">> \o p.stderr

ParseMessage(p) == <<"Failed to parse detector output: ">> \o p.stdout

\* C1: when the launchers before launcher j all failed to start and
\* launcher j ran, closed with exit code 0 and wrote parseable JSON, the
\* analysis is resolved with the response launcher j wrote.
C1_FallbackSucceeds ==
    \A j \in 2..Len(procs) :
        (/\ \A i \in 1..(j - 1) : procs[i].errored
         /\ StartedOk(procs[j]))
        => /\ promise.state = "resolved"
           /\ promise.value = JSONparse(procs[j].stdout).value

\* C2: when every launcher of the list failed to start, the analysis is
\* rejected with the 'Python is not installed' error, and that is the
\* message the user is shown after 'Analysis failed: '.
C2_ExhaustionMessage ==
    (Len(procs) = Len(pythonCommands) /\ \A i \in 1..Len(procs) : procs[i].errored)
    => /\ promise.state = "rejected"
       /\ promise.value = Error(NoPythonMessage)
       /\ pc = "done" =>
            ui = <<Message("error", <<"Analysis failed: ">> \o NoPythonMessage)>>

\* What the 'close' listener of a closed process must have called
ExpectedCall(i) ==
    LET p == procs[i]
    IN  IF p.exitCode # 0
        THEN [by |-> i, fn |-> "reject", arg |-> Error(ExitMessage(p))]
        ELSE IF JSONparse(p.stdout).ok
        THEN [by |-> i, fn |-> "resolve", arg |-> JSONparse(p.stdout).value]
        ELSE [by |-> i, fn |-> "reject", arg |-> Error(ParseMessage(p))]

CallsBy(i) == {k \in 1..Len(calls) : calls[k].by = i}

\* C3: the analysis is resolved only with the parsed stdout of a process
\* that closed with exit code 0; the close listener of a process that
\* closed with a non-zero code calls reject with the exit code and the
\* process's stderr, and that of a process that closed with code 0 and
\* unparseable stdout calls reject with 'Failed to parse detector output'
\* and does not call resolve; the promise takes the first call made on it.
C3_CloseContract ==
    /\ promise.state = "resolved" =>
            \E i \in 1..Len(procs) :
                /\ procs[i].closed /\ procs[i].exitCode = 0
                /\ JSONparse(procs[i].stdout).ok
                /\ promise.value = JSONparse(procs[i].stdout).value
    /\ \A i \in 1..Len(procs) :
            IF procs[i].closed
            THEN \E k \in 1..Len(calls) :
                    CallsBy(i) = {k} /\ calls[k] = ExpectedCall(i)
            ELSE CallsBy(i) = {}
    /\ IF calls = <<>> THEN promise.state = "pending"
       ELSE /\ promise.state = (IF calls[1].fn = "resolve" THEN "resolved" ELSE "rejected")
            /\ promise.value = calls[1].arg

\* A process wrote to stderr and closed with a non-zero exit code, and the
\* analysis is rejected with that code and that stderr content
C3_Witness ==
    \E i \in 1..Len(procs) :
        /\ procs[i].closed /\ procs[i].exitCode = 1 /\ procs[i].stderr # <<>>
        /\ promise.state = "rejected"
        /\ promise.value = Error(ExitMessage(procs[i]))

IsOutcome(m) ==
    \/ m.kind = "panel"
    \/ m.kind = "error" /\ Head(m.body) = "Analysis failed: "

Outcomes == {k \in 1..Len(ui) : IsOutcome(ui[k])}

Supported == DOMAIN languageMap

RECURSIVE PayloadLanguage(_)
PayloadLanguage(text) ==
    IF Len(text) < 2 THEN JsUndefined
    ELSE IF text[1] = "\"language\":" THEN text[2]
    ELSE PayloadLanguage(Tail(text))

\* C7: for a languageId outside the five supported identifiers the command
\* shows the 'not supported' warning, spawns no process and opens no panel;
\* the language of every payload written to a process is 'python' or
\* 'javascript'.
C7_UnsupportedNeverAnalysed ==
    /\ (req.hasEditor /\ trim(req.selectedText) # <<>>
        /\ req.languageId \notin Supported)
       => /\ procs = <<>>
          /\ Len(ui) = 1 /\ ui[1].kind = "warning"
    /\ \A i \in 1..Len(procs) : \A k \in 1..Len(procs[i].stdin.written) :
            PayloadLanguage(procs[i].stdin.written[k]) \in {"python", "javascript"}

\* C8: every spawned process was written exactly one payload, the JSON
\* encoding of the code and language of the request, and then its stdin
\* was ended; nothing was written after the end.
C8_OnePayloadPerProcess ==
    \A i \in 1..Len(procs) :
        /\ procs[i].stdin.written = <<JSONstringify(req.selectedText, req.language)>>
        /\ procs[i].stdin.ended
        /\ ~procs[i].stdin.writeAfterEnd

\* Two launchers failed to start and a third process was spawned
C8_Witness ==
    /\ Len(procs) = Len(pythonCommands)
    /\ req.selectedText = <<" ", "y", " ">>
    /\ req.language = "javascript"

\* C10: the first launcher attempted is 'python3', 'python' is attempted
\* only after 'python3' failed to start, and the launchers are attempted in
\* list order, each at most once.
C10_Python3First ==
    /\ Len(procs) >= 1 => procs[1].cmd = "python3"
    /\ \A i \in 1..Len(procs) :
            procs[i].cmd = "python" =>
                \E j \in 1..(i - 1) : procs[j].cmd = "python3" /\ procs[j].errored
    /\ \A i \in 1..Len(procs) : procs[i].cmd = pythonCommands[i]

\* C12: once the promise of a request is settled, no further process is
\* spawned for that request, whatever the order of the 'error' and 'close'
\* events of the processes spawned before.
C12_NoSpawnAfterSettlement ==
    [][promise.state # "pending" => Len(procs') <= Len(procs)]_vars

(************************ claims about the panel ***************************)
Rendered == rOutput # <<>>

Html == rOutput[1].body

IsResponse(result) == DOMAIN result = {"language", "results"}

StatusError == <<"Analysis Error">>
StatusSafe == <<"No vulnerabilities detected">>

StatusCount(n) ==
    NumberText(n)
    \o <<" ", IF n = 1 THEN "vulnerability" ELSE "vulnerabilities", " detected">>

IsSentinel(finding) == finding.vulnerability = <<"Error">>

HoldsSentinel(results) == \E i \in 1..Len(results) : IsSentinel(results[i])

\* C5: a response whose results are empty is rendered as safe ('No
\* vulnerabilities detected' or 'Code Appears Safe'), with no vulnerability
\* card and not as 'Analysis Error' or 'Vulnerability Detected'.
C5_EmptyRendersSafe ==
    (Rendered /\ IsResponse(rInput) /\ rInput.results = <<>>)
    => /\ Html.statusText \in {StatusSafe, <<"Code Appears Safe">>}
       /\ Html.cards = <<>>

\* C6, as stated: exactly one of the three statuses is shown; 'Analysis
\* Error' whenever results holds the 'Error' sentinel, and 'N
\* vulnerabilities detected' only when results is non-empty and holds no
\* sentinel, with N the number of findings.
C6_ThreeWayByContent ==
    (Rendered /\ build = "part_001" /\ IsResponse(rInput))
    => LET results == rInput.results
       IN  /\ Html.statusText \in {StatusError, StatusSafe, StatusCount(Len(results))}
           /\ HoldsSentinel(results) => Html.statusText = StatusError
           /\ Html.statusText = StatusCount(Len(results))
                => results # <<>> /\ ~HoldsSentinel(results)

\* C6, amended: 'Analysis Error' is shown exactly when the first finding of
\* results is the 'Error' sentinel, 'N vulnerabilities detected' exactly
\* when results is non-empty and its first finding is not the sentinel, with
\* N the number of findings, and 'No vulnerabilities detected' exactly when
\* results is empty.
C6_ThreeWayByFirst ==
    (Rendered /\ build = "part_001" /\ IsResponse(rInput))
    => LET results == rInput.results
       IN  /\ Html.statusText \in {StatusError, StatusSafe, StatusCount(Len(results))}
           /\ Html.statusText = StatusError
                <=> (results # <<>> /\ IsSentinel(results[1]))
           /\ Html.statusText = StatusCount(Len(results))
                <=> (results # <<>> /\ ~IsSentinel(results[1]))
           /\ Html.statusText = StatusSafe <=> results = <<>>

\* A response whose second finding is the sentinel is counted, not reported
\* as an error
C6_Witness ==
    /\ Rendered /\ build = "part_001" /\ IsResponse(rInput)
    /\ Len(rInput.results) = 2
    /\ ~IsSentinel(rInput.results[1]) /\ IsSentinel(rInput.results[2])
    /\ Html.statusText = StatusCount(2)

\* C9: a response with k >= 1 findings is rendered as k cards, the i-th
\* showing the i-th finding, labelled 'Issue i of k' when k > 1.
C9_CardsInOrder ==
    (Rendered /\ build = "part_001" /\ IsResponse(rInput) /\ rInput.results # <<>>)
    => LET results == rInput.results
           k == Len(results)
       IN  /\ Len(Html.cards) = k
           /\ \A i \in 1..k :
                /\ Html.cards[i].vulnerability = escapeHtml(results[i].vulnerability)
                /\ Html.cards[i].severity = escapeHtml(results[i].severity)
                /\ Html.cards[i].explanation = escapeHtml(results[i].explanation)
                /\ Html.cards[i].patch = escapeHtml(results[i].patch)
                /\ Html.cards[i].number =
                        (IF k > 1
                         THEN <<"Issue ">> \o NumberText(i) \o <<" of ">> \o NumberText(k)
                         ELSE <<>>)

\* Three different findings were rendered
C9_Witness ==
    /\ Rendered /\ build = "part_001" /\ IsResponse(rInput)
    /\ rInput.results = <<CodeInjection, CrossSiteScripting, ErrorFinding>>
    /\ Len(Html.cards) = 3

(*********************** claims about escaping *****************************)
Escaped == eOutput # <<>>

SpecialCharacters == {"&", "<", ">", "\"", "'"}

\* The character each entity stands for
EntityCharacter ==
    ("amp" :> "&") @@ ("lt" :> "<") @@ ("gt" :> ">") @@ ("quot" :> "\"")
    @@ ("#039" :> "'")

EntityAt(text, i) ==
    /\ i + 2 <= Len(text)
    /\ text[i] = "&"
    /\ text[i + 1] \in DOMAIN EntityCharacter
    /\ text[i + 2] = ";"

\* No <, >, " or ' in the text, and every & in it starts an entity
WellEscaped(text) ==
    \A i \in 1..Len(text) :
        /\ text[i] \notin {"<", ">", "\"", "'"}
        /\ text[i] = "&" => EntityAt(text, i)

\* The text a browser shows for escaped text: every entity read once
RECURSIVE Unescape(_)
Unescape(text) ==
    IF text = <<>> THEN <<>>
    ELSE IF EntityAt(text, 1)
         THEN <<EntityCharacter[text[2]]>> \o Unescape(SubSeq(text, 4, Len(text)))
         ELSE <<text[1]>> \o Unescape(Tail(text))

EscapeOf(text, str) == WellEscaped(text) /\ Unescape(text) = str

NoSpecialCharacter(text) ==
    \A i \in 1..Len(text) : text[i] \notin SpecialCharacters

ColourTable == {severityColors[s] : s \in DOMAIN severityColors} \cup {DefaultColor}

====
